---- MODULE Spec2Model ----
(***************************************************************************)
(* Model of libversion's version comparator (src/libversion/compare.c).    *)
(*                                                                         *)
(* A version string is a finite sequence of ASCII codes; the terminating   *)
(* NUL is the end of the sequence.  A `const char*` cursor into a string   *)
(* is the remaining suffix, so `++*str` is Tail and `**str == 0` is        *)
(* emptiness.  A flag word is the set of the VERSIONFLAG_ bits set in it,  *)
(* so `flags & VERSIONFLAG_X` is membership of "X".                        *)
(*                                                                         *)
(* version_component_t is int64_t in the source.  TLC's integers are 32    *)
(* bits wide, so the model keeps the code's arithmetic and scales the      *)
(* component type to 8 bits: VERSION_COMPONENT_MAX is 127, the smallest    *)
(* signed maximum that still lies above every letter code ('z' = 122).     *)
(***************************************************************************)
EXTENDS Integers, Sequences, FiniteSets, TLC

VARIABLES
    x,      \* first version string handed to version_compare4
    y,      \* second version string handed to version_compare4
    z,      \* third version string (SpecTrans), digit run of x (SpecSat)
    s,      \* the suffix an argument was built with (else empty)
    f,      \* flag word of the first argument
    g,      \* flag word of the second argument
    fr      \* the frame of the running version_compare4 call

vars == <<x, y, z, s, f, g, fr>>

----------------------------------------------------------------------------
(* Bounds of the model *)

\* longest version string of Spec and SpecExt
MaxLen == 3

\* longest version string of SpecFlags and SpecTrans
MaxShort == 2

\* longest suffix of SpecExt
MaxSuffix == 2

\* longest base version of SpecPre
MaxBase == 3

\* most letters after "pre" or "post" in SpecPre
MaxTail == 1

\* longest digit run of SpecSat
MaxDigits == 4

\* longest letter run of SpecAlpha
MaxAlpha == 7

\* longest second version string of SpecFill
MaxOther == 1

----------------------------------------------------------------------------
(* compare.c, constants and types *)

VERSION_COMPONENT_MAX == 127

ALPHAFLAG_PRERELEASE == 1

ALPHAFLAG_POSTRELEASE == 2

MY_MIN(a, b) == IF a < b THEN a ELSE b

unit_t(a, b, c) == [a |-> a, b |-> b, c |-> c]

\* *str: the byte under the cursor, NUL at the end of the string
Deref(str) == IF str = <<>> THEN 0 ELSE Head(str)

\* str + n
Advance(str, n) == SubSeq(str, n + 1, Len(str))

\* mutant: the b fields compared with <= for <
compare_units_nonstrict(u1, u2) ==
    IF u1.a < u2.a THEN -1
    ELSE IF u1.a > u2.a THEN 1
    ELSE IF u1.b <= u2.b THEN -1
    ELSE IF u1.b > u2.b THEN 1
    ELSE IF u1.c < u2.c THEN -1
    ELSE IF u1.c > u2.c THEN 1
    ELSE 0

compare_units(u1, u2) ==
    IF u1.a < u2.a THEN -1
    ELSE IF u1.a > u2.a THEN 1
    ELSE IF u1.b < u2.b THEN -1
    ELSE IF u1.b > u2.b THEN 1
    ELSE IF u1.c < u2.c THEN -1
    ELSE IF u1.c > u2.c THEN 1
    ELSE 0

IsDigit(c) == c >= 48 /\ c <= 57

IsLower(c) == c >= 97 /\ c <= 122

IsUpper(c) == c >= 65 /\ c <= 90

is_version_char(c) == IsDigit(c) \/ IsLower(c) \/ IsUpper(c)

----------------------------------------------------------------------------
(* parse_number *)

\* mutant: the check forgets the digit, and the multiply-add wraps
parse_number_digit_wrap(component, number) ==
    IF component <= VERSION_COMPONENT_MAX \div 10
    THEN ((component * 10 + number + VERSION_COMPONENT_MAX + 1)
            % (2 * VERSION_COMPONENT_MAX + 2)) - VERSION_COMPONENT_MAX - 1
    ELSE VERSION_COMPONENT_MAX

\* one digit of the loop body: the check before the multiply-add
parse_number_digit(component, number) ==
    IF component <= (VERSION_COMPONENT_MAX - number) \div 10
    THEN component * 10 + number
    ELSE VERSION_COMPONENT_MAX

RECURSIVE parse_number_loop(_, _)
parse_number_loop(cur, component) ==
    IF IsDigit(Deref(cur))
    THEN parse_number_loop(Tail(cur), parse_number_digit(component, Deref(cur) - 48))
    ELSE [cur |-> cur, component |-> component]

parse_number(str) ==
    LET r == parse_number_loop(str, 0)
    IN  IF r.cur = str
        THEN [str |-> str, ret |-> -1]
        ELSE [str |-> r.cur, ret |-> r.component]

----------------------------------------------------------------------------
(* parse_alpha *)

ToLower(c) == IF IsUpper(c) THEN c - 65 + 97 ELSE c

RECURSIVE mymemcasecmp(_, _, _)
mymemcasecmp(a, b, len) ==
    IF len = 0 THEN 0
    ELSE IF ToLower(Deref(a)) # ToLower(Deref(b))
         THEN ToLower(Deref(a)) - ToLower(Deref(b))
         ELSE mymemcasecmp(Advance(a, 1), Advance(b, 1), len - 1)

RECURSIVE SkipLetters(_)
SkipLetters(cur) ==
    IF IsLower(Deref(cur)) \/ IsUpper(Deref(cur)) THEN SkipLetters(Tail(cur)) ELSE cur

W_alpha == <<97, 108, 112, 104, 97>>
W_beta == <<98, 101, 116, 97>>
W_rc == <<114, 99>>
W_pre == <<112, 114, 101>>
W_post == <<112, 111, 115, 116>>
W_patch == <<112, 97, 116, 99, 104>>
W_pl == <<112, 108>>
W_errata == <<101, 114, 114, 97, 116, 97>>

\* mutant: all six letters of "errata" compared
alpha_class_errata(str, n, flags) ==
    IF n = 5 /\ mymemcasecmp(str, W_alpha, 5) = 0 THEN ALPHAFLAG_PRERELEASE
    ELSE IF n = 4 /\ mymemcasecmp(str, W_beta, 4) = 0 THEN ALPHAFLAG_PRERELEASE
    ELSE IF n = 2 /\ mymemcasecmp(str, W_rc, 2) = 0 THEN ALPHAFLAG_PRERELEASE
    ELSE IF n >= 3 /\ mymemcasecmp(str, W_pre, 3) = 0 THEN ALPHAFLAG_PRERELEASE
    ELSE IF n >= 4 /\ mymemcasecmp(str, W_post, 4) = 0 THEN ALPHAFLAG_POSTRELEASE
    ELSE IF n = 5 /\ mymemcasecmp(str, W_patch, 5) = 0 THEN ALPHAFLAG_POSTRELEASE
    ELSE IF n = 2 /\ mymemcasecmp(str, W_pl, 2) = 0 THEN ALPHAFLAG_POSTRELEASE
    ELSE IF n = 6 /\ mymemcasecmp(str, W_errata, 6) = 0 THEN ALPHAFLAG_POSTRELEASE
    ELSE IF "P_IS_PATCH" \in flags /\ n = 1 /\ (Deref(str) = 112 \/ Deref(str) = 80)
         THEN ALPHAFLAG_POSTRELEASE
    ELSE 0

\* the classification chain; n is cur - *str, the length of the letter run
alpha_class(str, n, flags) ==
    IF n = 5 /\ mymemcasecmp(str, W_alpha, 5) = 0 THEN ALPHAFLAG_PRERELEASE
    ELSE IF n = 4 /\ mymemcasecmp(str, W_beta, 4) = 0 THEN ALPHAFLAG_PRERELEASE
    ELSE IF n = 2 /\ mymemcasecmp(str, W_rc, 2) = 0 THEN ALPHAFLAG_PRERELEASE
    ELSE IF n >= 3 /\ mymemcasecmp(str, W_pre, 3) = 0 THEN ALPHAFLAG_PRERELEASE
    ELSE IF n >= 4 /\ mymemcasecmp(str, W_post, 4) = 0 THEN ALPHAFLAG_POSTRELEASE
    ELSE IF n = 5 /\ mymemcasecmp(str, W_patch, 5) = 0 THEN ALPHAFLAG_POSTRELEASE
    ELSE IF n = 2 /\ mymemcasecmp(str, W_pl, 2) = 0 THEN ALPHAFLAG_POSTRELEASE
    ELSE IF n = 6 /\ mymemcasecmp(str, W_errata, 2) = 0 THEN ALPHAFLAG_POSTRELEASE
    ELSE IF "P_IS_PATCH" \in flags /\ n = 1 /\ (Deref(str) = 112 \/ Deref(str) = 80)
         THEN ALPHAFLAG_POSTRELEASE
    ELSE 0

parse_alpha(str, flags) ==
    LET start == Deref(str)
        cur == SkipLetters(str)
        n == Len(str) - Len(cur)
    IN  IF cur = str
        THEN [str |-> str, outflags |-> 0, ret |-> -1]
        ELSE [str |-> cur, outflags |-> alpha_class(str, n, flags),
              ret |-> ToLower(start)]

----------------------------------------------------------------------------
(* get_next_version_component *)

RECURSIVE skip_separators(_)
skip_separators(str) ==
    IF Deref(str) # 0 /\ ~is_version_char(Deref(str))
    THEN skip_separators(Tail(str))
    ELSE str

RECURSIVE skip_version_chars(_)
skip_version_chars(str) ==
    IF is_version_char(Deref(str)) THEN skip_version_chars(Tail(str)) ELSE str

\* mutant: the two bound fillers swapped
filler_swapped(flags) ==
    IF "LOWER_BOUND" \in flags
    THEN unit_t(VERSION_COMPONENT_MAX, VERSION_COMPONENT_MAX, VERSION_COMPONENT_MAX)
    ELSE IF "UPPER_BOUND" \in flags THEN unit_t(-2, -2, -2)
    ELSE unit_t(0, -1, -1)

\* mutant: the plain filler made of three "absent" values
filler_absent(flags) ==
    IF "LOWER_BOUND" \in flags THEN unit_t(-2, -2, -2)
    ELSE IF "UPPER_BOUND" \in flags
         THEN unit_t(VERSION_COMPONENT_MAX, VERSION_COMPONENT_MAX, VERSION_COMPONENT_MAX)
    ELSE unit_t(-1, -1, -1)

\* the filler component generated at the end of the string
filler(flags) ==
    IF "LOWER_BOUND" \in flags THEN unit_t(-2, -2, -2)
    ELSE IF "UPPER_BOUND" \in flags
         THEN unit_t(VERSION_COMPONENT_MAX, VERSION_COMPONENT_MAX, VERSION_COMPONENT_MAX)
    ELSE unit_t(0, -1, -1)

\* mutant: a classified letter run is not unglued from its number
emit_units_glued(number, alpha, extranumber, alphaflags) ==
    IF number # -1 /\ extranumber # -1
    THEN <<unit_t(number, -1, -1),
           unit_t(IF alphaflags = ALPHAFLAG_POSTRELEASE THEN 0 ELSE -1, alpha, extranumber)>>
    ELSE <<unit_t(IF number = -1 /\ alphaflags = ALPHAFLAG_POSTRELEASE THEN 0 ELSE number,
                  alpha, extranumber)>>

\* the units written to target[] from the three parsed parts
emit_units(number, alpha, extranumber, alphaflags) ==
    IF number # -1 /\ extranumber # -1
    THEN <<unit_t(number, -1, -1),
           unit_t(IF alphaflags = ALPHAFLAG_POSTRELEASE THEN 0 ELSE -1, alpha, extranumber)>>
    ELSE IF number # -1 /\ alpha # -1 /\ alphaflags # 0
    THEN <<unit_t(number, -1, -1),
           unit_t(IF alphaflags = ALPHAFLAG_POSTRELEASE THEN 0 ELSE -1, alpha, -1)>>
    ELSE <<unit_t(IF number = -1 /\ alphaflags = ALPHAFLAG_POSTRELEASE THEN 0 ELSE number,
                  alpha, extranumber)>>

\* returns the advanced cursor, the units written to target[0..] in order
\* (the return value of the C function is their number) and whether the
\* component is extant (not the end-of-string filler)
get_next_version_component(str0, flags) ==
    LET str == skip_separators(str0)
    IN  IF Deref(str) = 0
        THEN [str |-> str, units |-> <<filler(flags)>>, extant |-> FALSE]
        ELSE LET n == parse_number(str)
                 a == parse_alpha(n.str, flags)
                 e == parse_number(a.str)
                 alphaflags == IF "ANY_IS_PATCH" \in flags
                               THEN ALPHAFLAG_POSTRELEASE ELSE a.outflags
             IN  [str |-> skip_version_chars(e.str),
                  units |-> emit_units(n.ret, a.ret, e.ret, alphaflags),
                  extant |-> TRUE]

----------------------------------------------------------------------------
(* version_compare4 *)

(* A buffer slot that an extraction has written holds a unit u and, as     *)
(* history, the index k of that unit in its side's unit stream.  A slot    *)
(* never written holds indeterminate memory: it has k = 0 and no unit, and *)
(* a comparison that reads it may return any result.                       *)
Unwritten == [k |-> 0]

\* v_units[i]; an index beyond the array reads indeterminate memory too
ReadSlot(units, i) == IF i < 2 THEN units[i + 1] ELSE Unwritten

\* target[0..n-1] = units, numbered from stream index base + 1; the other
\* slots keep what they held
WriteUnits(buf, units, base) ==
    [i \in 1..2 |-> IF i <= Len(units) THEN [u |-> units[i], k |-> base + i]
                    ELSE buf[i]]

\* the results compare_units(&v1_units[i], &v2_units[i]) may return
compare_slots(a, b) ==
    IF a.k = 0 \/ b.k = 0 THEN {-1, 0, 1} ELSE {compare_units(a.u, b.u)}

\* for (i = 0; i < shift; i++) { res = compare_units(...); if (res != 0) return res; }
\* the possible outcomes; n counts the calls of compare_units made
RECURSIVE compare_loop(_, _, _, _)
compare_loop(u1, u2, i, shift) ==
    IF i < shift
    THEN UNION {IF res # 0 THEN {[res |-> res, n |-> i + 1]}
                ELSE compare_loop(u1, u2, i + 1, shift) :
                res \in compare_slots(ReadSlot(u1, i), ReadSlot(u2, i))}
    ELSE {[res |-> 0, n |-> i]}

\* for (i = 0; i < shift; i++) v_units[i] = v_units[i+shift];
RECURSIVE shift_loop(_, _, _)
shift_loop(units, i, shift) ==
    IF i < shift
    THEN shift_loop([units EXCEPT ![i + 1] = ReadSlot(units, i + shift)], i + 1, shift)
    ELSE units

\* mutant: the remaining unit is not shifted down
shift_units_never(units, v1_len, v2_len, shift) == units

\* the buffers are shifted down only when the two lengths differ
shift_units(units, v1_len, v2_len, shift) ==
    IF v1_len # v2_len THEN shift_loop(units, 0, shift) ELSE units

\* a side is exhausted when its cursor is at the NUL and its buffer is empty
exhausted(v, len) == Deref(v) = 0 /\ len = 0

\* mutant: the mask of the bound flags lacks VERSIONFLAG_UPPER_BOUND
extra_components_lower(flags) ==
    IF "LOWER_BOUND" \in flags THEN 1 ELSE 0

\* the initial value of v_extra_components
extra_components(flags) ==
    IF "LOWER_BOUND" \in flags \/ "UPPER_BOUND" \in flags THEN 1 ELSE 0

\* mutant: the extra component is never used up
consume_extra_kept(v_exhausted, v_extra_components) ==
    IF v_exhausted /\ v_extra_components > 0
    THEN [extra |-> v_extra_components, exhausted |-> FALSE]
    ELSE [extra |-> v_extra_components, exhausted |-> v_exhausted]

\* if (v_exhausted && v_extra_components > 0) { v_extra_components--; v_exhausted = 0; }
\* returns the counter and the flag after the statement
consume_extra(v_exhausted, v_extra_components) ==
    IF v_exhausted /\ v_extra_components > 0
    THEN [extra |-> v_extra_components - 1, exhausted |-> FALSE]
    ELSE [extra |-> v_extra_components, exhausted |-> v_exhausted]

\* mutant: the loop ends as soon as one side is exhausted
loop_continues_both(v1_exhausted, v2_exhausted) == ~v1_exhausted /\ ~v2_exhausted

\* the condition of the do-while
loop_continues(v1_exhausted, v2_exhausted) == ~v1_exhausted \/ ~v2_exhausted

\* the frame of version_compare4 on entry to the do-while loop
Frame(v1, v2, v1_flags, v2_flags) ==
    [v1 |-> v1, v2 |-> v2, v1_flags |-> v1_flags, v2_flags |-> v2_flags,
     v1_units |-> <<Unwritten, Unwritten>>,
     v2_units |-> <<Unwritten, Unwritten>>,
     v1_len |-> 0, v2_len |-> 0,
     v1_extra_components |-> extra_components(v1_flags),
     v2_extra_components |-> extra_components(v2_flags),
     res |-> 0, pc |-> "loop",
     \* history: the unit streams extracted so far, the first stream index of
     \* each side's latest extraction, the calls of compare_units made so far,
     \* the largest buffer index used so far, the iterations begun so far
     s1 |-> <<>>, s2 |-> <<>>, base1 |-> 0, base2 |-> 0, calls |-> <<>>,
     maxidx |-> 0, iter |-> 0]

Max(a, b) == IF a > b THEN a ELSE b

\* one iteration of the do-while loop, up to its return or its loop test:
\* the frames it may end in
LoopBody(st) ==
    LET e1 == get_next_version_component(st.v1, st.v1_flags)
        e2 == get_next_version_component(st.v2, st.v2_flags)
        r1 == st.v1_len = 0
        r2 == st.v2_len = 0
        v1 == IF r1 THEN e1.str ELSE st.v1
        v2 == IF r2 THEN e2.str ELSE st.v2
        v1_units == IF r1 THEN WriteUnits(st.v1_units, e1.units, Len(st.s1)) ELSE st.v1_units
        v2_units == IF r2 THEN WriteUnits(st.v2_units, e2.units, Len(st.s2)) ELSE st.v2_units
        v1_len == IF r1 THEN Len(e1.units) ELSE st.v1_len
        v2_len == IF r2 THEN Len(e2.units) ELSE st.v2_len
        shift == MY_MIN(v1_len, v2_len)
        x1 == consume_extra(exhausted(v1, v1_len - shift), st.v1_extra_components)
        x2 == consume_extra(exhausted(v2, v2_len - shift), st.v2_extra_components)
        \* history
        s1 == IF r1 THEN st.s1 \o [i \in 1..Len(e1.units) |->
                                     [u |-> e1.units[i], extant |-> e1.extant]]
              ELSE st.s1
        s2 == IF r2 THEN st.s2 \o [i \in 1..Len(e2.units) |->
                                     [u |-> e2.units[i], extant |-> e2.extant]]
              ELSE st.s2
        base1 == IF r1 THEN Len(st.s1) + 1 ELSE st.base1
        base2 == IF r2 THEN Len(st.s2) + 1 ELSE st.base2
        calls(n) == st.calls \o [i \in 1..n |->
                      [i |-> i - 1, k1 |-> ReadSlot(v1_units, i - 1).k,
                       k2 |-> ReadSlot(v2_units, i - 1).k,
                       base1 |-> base1, base2 |-> base2]]
        maxidx(c) == Max(Max(st.maxidx, Max(v1_len, v2_len) - 1),
                         Max(c.n - 1,
                             IF c.res = 0 /\ v1_len # v2_len THEN 2 * shift - 1 ELSE 0))
        hist(c) == [st EXCEPT !.v1 = v1, !.v2 = v2, !.v1_units = v1_units,
                              !.v2_units = v2_units, !.v1_len = v1_len, !.v2_len = v2_len,
                              !.s1 = s1, !.s2 = s2, !.base1 = base1, !.base2 = base2,
                              !.calls = calls(c.n),
                              !.maxidx = maxidx(c), !.iter = st.iter + 1]
    IN  {IF c.res # 0
         THEN [hist(c) EXCEPT !.res = c.res, !.pc = "done"]
         ELSE [hist(c) EXCEPT
                 !.v1_units = shift_units(v1_units, v1_len, v2_len, shift),
                 !.v2_units = shift_units(v2_units, v1_len, v2_len, shift),
                 !.v1_len = v1_len - shift, !.v2_len = v2_len - shift,
                 !.v1_extra_components = x1.extra, !.v2_extra_components = x2.extra,
                 !.res = 0,
                 !.pc = IF loop_continues(x1.exhausted, x2.exhausted)
                        THEN "loop" ELSE "done"] :
         c \in compare_loop(v1_units, v2_units, 0, shift)}

\* the call run to its return: the frames it may return in
RECURSIVE RunLoop(_)
RunLoop(st) == IF st.pc = "done" THEN {st} ELSE UNION {RunLoop(n) : n \in LoopBody(st)}

\* the values version_compare4(v1, v2, v1_flags, v2_flags) may return
version_compare4(v1, v2, v1_flags, v2_flags) ==
    {st.res : st \in RunLoop(Frame(v1, v2, v1_flags, v2_flags))}

----------------------------------------------------------------------------
(* The state machine: one call version_compare4(x, y, f, g), one iteration *)
(* of its loop per step.                                                   *)

Iterate ==
    /\ fr.pc = "loop"
    /\ fr' \in LoopBody(fr)
    /\ UNCHANGED <<x, y, z, s, f, g>>

Next == Iterate

----------------------------------------------------------------------------
(* Inputs *)

\* all strings over alphabet A of length at most n
Strs(A, n) == UNION {[1..k -> A] : k \in 0..n}

\* '1', 'p', '.'
Alphabet == {49, 112, 46}

FlagWords == SUBSET {"P_IS_PATCH", "ANY_IS_PATCH", "LOWER_BOUND", "UPPER_BOUND"}

\* one flag word of each kind
SomeFlagWords == {{}, {"P_IS_PATCH"}, {"ANY_IS_PATCH"}, {"LOWER_BOUND"}, {"UPPER_BOUND"}}

\* any two versions, one flag word of each kind on either side
Init ==
    /\ x \in Strs(Alphabet, MaxLen)
    /\ y \in Strs(Alphabet, MaxLen)
    /\ z = <<>>
    /\ s = <<>>
    /\ f \in SomeFlagWords
    /\ g \in SomeFlagWords
    /\ fr = Frame(x, y, f, g)

Spec == Init /\ [][Next]_vars

\* any two short versions, every flag word on either side
InitFlags ==
    /\ x \in Strs(Alphabet, MaxShort)
    /\ y \in Strs(Alphabet, MaxShort)
    /\ z = <<>>
    /\ s = <<>>
    /\ f \in FlagWords
    /\ g \in FlagWords
    /\ fr = Frame(x, y, f, g)

SpecFlags == InitFlags /\ [][Next]_vars

\* any three short versions, the same flag word on both sides
InitTrans ==
    /\ x \in Strs(Alphabet, MaxShort)
    /\ y \in Strs(Alphabet, MaxShort)
    /\ z \in Strs(Alphabet, MaxShort)
    /\ s = <<>>
    /\ f \in SomeFlagWords
    /\ g = f
    /\ fr = Frame(x, y, f, g)

SpecTrans == InitTrans /\ [][Next]_vars

\* '1', '9', 'p', '.'
ExtAlphabet == {49, 57, 112, 46}

\* a version x with a bound flag against x followed by a suffix s
InitExt ==
    /\ x \in Strs(ExtAlphabet, MaxLen)
    /\ s \in Strs(ExtAlphabet, MaxSuffix)
    /\ y = x \o s
    /\ z = <<>>
    /\ f \in {{"LOWER_BOUND"}, {"UPPER_BOUND"}}
    /\ g = {}
    /\ fr = Frame(x, y, f, g)

SpecExt == InitExt /\ [][Next]_vars

----------------------------------------------------------------------------
(* Stream alignment (Spec) *)

\* the first non-zero comparison of the two unit streams from index k on, or 0
RECURSIVE FirstDiff(_, _, _)
FirstDiff(s1, s2, k) ==
    IF k > Len(s1) \/ k > Len(s2) THEN 0
    ELSE IF compare_units(s1[k].u, s2[k].u) # 0 THEN compare_units(s1[k].u, s2[k].u)
    ELSE FirstDiff(s1, s2, k + 1)

(* C10: the j-th call of compare_units compares the j-th unit of side 1's  *)
(* stream with the j-th unit of side 2's stream, both written by their     *)
(* side's latest extraction, at a buffer index below 2; no buffer index    *)
(* used reaches the capacity 2; and the value returned is the first        *)
(* non-zero comparison of the two streams, or 0 with both streams wholly   *)
(* compared.                                                               *)
C10_StreamAlignment ==
    /\ \A j \in 1..Len(fr.calls) :
          /\ fr.calls[j].k1 = j
          /\ fr.calls[j].k2 = j
          /\ fr.calls[j].base1 >= 1 /\ fr.calls[j].base2 >= 1
          /\ fr.calls[j].k1 >= fr.calls[j].base1
          /\ fr.calls[j].k2 >= fr.calls[j].base2
          /\ fr.calls[j].i < 2
    /\ fr.maxidx < 2
    /\ fr.pc = "done" =>
          /\ fr.res = FirstDiff(fr.s1, fr.s2, 1)
          /\ fr.res = 0 => Len(fr.s1) = Len(fr.calls) /\ Len(fr.s2) = Len(fr.calls)

\* a run that compared, at buffer index 0, a unit of side 1 shifted down
\* from index 1 with a unit side 2 had just extracted, and went on to the
\* end of both streams
C10_Witness ==
    /\ fr.pc = "done"
    /\ fr.res = 0
    /\ \E j \in 1..Len(fr.calls) :
          /\ fr.calls[j].i = 0
          /\ fr.calls[j].k1 = fr.calls[j].base1 + 1
          /\ fr.calls[j].k2 = fr.calls[j].base2

----------------------------------------------------------------------------
(* The filler ordering (SpecFill) *)

\* '0', '1', 'p', '.'
FillAlphabet == {48, 49, 112, 46}

\* any version against any short version, one flag word of each kind on
\* either side
InitFill ==
    /\ x \in Strs(FillAlphabet, MaxLen)
    /\ y \in Strs(FillAlphabet, MaxOther)
    /\ z = <<>>
    /\ s = <<>>
    /\ f \in SomeFlagWords
    /\ g \in SomeFlagWords
    /\ fr = Frame(x, y, f, g)

SpecFill == InitFill /\ [][Next]_vars

\* the extant units extracted so far on either side
ExtantUnits ==
    {fr.s1[i].u : i \in {j \in 1..Len(fr.s1) : fr.s1[j].extant}}
        \cup {fr.s2[i].u : i \in {j \in 1..Len(fr.s2) : fr.s2[j].extant}}

\* the end-of-string fillers extracted so far by a side without a bound flag
PlainFillers ==
    (IF "LOWER_BOUND" \in f \/ "UPPER_BOUND" \in f THEN {}
     ELSE {fr.s1[i].u : i \in {j \in 1..Len(fr.s1) : ~fr.s1[j].extant}})
        \cup
    (IF "LOWER_BOUND" \in g \/ "UPPER_BOUND" \in g THEN {}
     ELSE {fr.s2[i].u : i \in {j \in 1..Len(fr.s2) : ~fr.s2[j].extant}})

(* C9 as claimed: the plain end-of-string filler sorts strictly below      *)
(* every unit extracted for an extant component.                           *)
C9_FillerBelowAll ==
    \A p \in PlainFillers : \A u \in ExtantUnits : compare_units(p, u) = -1

(* C9 as amended: the plain end-of-string filler is (0, -1, -1); it sorts  *)
(* strictly below every extant unit except the unit (0, -1, -1) of a       *)
(* numeric component 0, which it equals, and the units whose a is -1,      *)
(* which sort strictly below the filler.                                   *)
C9_FillerOrder ==
    \A p \in PlainFillers : \A u \in ExtantUnits :
        /\ p = unit_t(0, -1, -1)
        /\ u.a >= -1
        /\ compare_units(p, u) =
              (IF u.a = -1 THEN 1 ELSE IF u = unit_t(0, -1, -1) THEN 0 ELSE -1)

\* a run with a plain filler, an extant unit equal to it and an extant unit
\* whose a is -1
C9_Witness ==
    /\ PlainFillers # {}
    /\ \E u \in ExtantUnits : u.a = -1
    /\ \E u \in ExtantUnits : u = unit_t(0, -1, -1)

----------------------------------------------------------------------------
(* Antisymmetry and totality (SpecFlags) *)

(* C1: the value returned by version_compare4(x, y, f, g) is the negation  *)
(* of the value of version_compare4(y, x, g, f).                           *)
C1_Antisymmetry ==
    fr.pc = "done" => \A r \in version_compare4(y, x, g, f) : fr.res = -r

\* a finished comparison of different versions under different flag words
\* with a non-zero result
C1_Witness ==
    fr.pc = "done" /\ fr.res = 1 /\ x # y /\ f # g /\ Len(fr.calls) >= 2

(* C3: an iteration of the loop always runs to its return or its loop     *)
(* test, the loop returns after at most Len(x) + Len(y) + 2 iterations     *)
(* and the value returned is -1, 0 or 1.                                   *)
C3_Totality ==
    /\ fr.iter <= Len(x) + Len(y) + 2
    /\ fr.pc \in {"loop", "done"}
    /\ fr.pc = "loop" => LoopBody(fr) # {}
    /\ fr.pc = "done" => fr.res \in {-1, 0, 1}

\* a finished comparison of the empty string with a separator-only string,
\* both bound flags set on either side
C3_Witness ==
    /\ fr.pc = "done"
    /\ x = <<>>
    /\ y # <<>> /\ \A i \in 1..Len(y) : ~is_version_char(y[i])
    /\ {"LOWER_BOUND", "UPPER_BOUND"} \subseteq f
    /\ {"LOWER_BOUND", "UPPER_BOUND"} \subseteq g

----------------------------------------------------------------------------
(* Transitivity (SpecTrans) *)

(* C2: with one flag word f on both sides of every call, if x <= y and     *)
(* y <= z then x <= z.                                                     *)
C2_Transitivity ==
    fr.pc = "done" =>
        \A yz \in version_compare4(y, z, f, f) : \A xz \in version_compare4(x, z, f, f) :
            fr.res <= 0 /\ yz <= 0 => xz <= 0

\* three different versions, strictly increasing
C2_Witness ==
    /\ fr.pc = "done" /\ fr.res = -1
    /\ version_compare4(y, z, f, f) = {-1}
    /\ Len(fr.calls) >= 2

----------------------------------------------------------------------------
(* Bounds (SpecExt) *)

HasComponent(v) == \E i \in 1..Len(v) : is_version_char(v[i])

(* C5: x with LOWER_BOUND compares at or below x itself and x with         *)
(* UPPER_BOUND at or above it, strictly so when x has a component.         *)
C5_BoundMonotonicity ==
    fr.pc = "done" /\ s = <<>> =>
        /\ "LOWER_BOUND" \in f => fr.res <= 0 /\ (HasComponent(x) => fr.res < 0)
        /\ "UPPER_BOUND" \in f => fr.res >= 0 /\ (HasComponent(x) => fr.res > 0)

\* an upper bound of a version of two components compared with the version
C5_Witness ==
    /\ fr.pc = "done" /\ s = <<>> /\ "UPPER_BOUND" \in f
    /\ HasComponent(x) /\ Len(fr.calls) >= 3 /\ fr.res = 1

(* C6 as claimed: x with LOWER_BOUND compares strictly below x followed by *)
(* any suffix s, and x with UPPER_BOUND strictly above it.                 *)
C6_BoundOverAnySuffix ==
    fr.pc = "done" =>
        /\ "LOWER_BOUND" \in f => fr.res < 0
        /\ "UPPER_BOUND" \in f => fr.res > 0

\* the suffix does not continue an alphanumeric run of x
StartsNewRun(v, t) ==
    \/ v = <<>> \/ ~is_version_char(v[Len(v)])
    \/ t = <<>> \/ ~is_version_char(t[1])

(* C6 as amended: x with LOWER_BOUND compares strictly below x followed by *)
(* s, and x with UPPER_BOUND strictly above it, whenever s does not        *)
(* continue the last alphanumeric run of x (x is empty or ends with a      *)
(* separator, or s is empty or begins with a separator).                   *)
C6_BoundOverExtension ==
    fr.pc = "done" /\ StartsNewRun(x, s) =>
        /\ "LOWER_BOUND" \in f => fr.res < 0
        /\ "UPPER_BOUND" \in f => fr.res > 0

\* an upper bound compared with its version extended by a new component
\* whose number saturates
C6_Witness ==
    /\ fr.pc = "done" /\ "UPPER_BOUND" \in f /\ fr.res = 1
    /\ HasComponent(x) /\ HasComponent(s) /\ StartsNewRun(x, s)
    /\ \E i \in 1..Len(fr.s2) : fr.s2[i].u.a = VERSION_COMPONENT_MAX

----------------------------------------------------------------------------
(* Prerelease and postrelease suffixes (SpecPre) *)

\* every spelling of the letter run w in upper and lower case
Cases(w) ==
    {[i \in 1..Len(w) |-> IF i \in S THEN w[i] - 32 ELSE w[i]] : S \in SUBSET (1..Len(w))}

\* 'z': the letter that may follow "pre" and "post"
TailLetters == {122}

\* alpha, beta, rc and the runs that start with pre, in any letter case
PreRuns ==
    UNION {Cases(w) : w \in {<<97, 108, 112, 104, 97>>, <<98, 101, 116, 97>>, <<114, 99>>}
                             \cup {<<112, 114, 101>> \o t : t \in Strs(TailLetters, MaxTail)}}

\* patch, pl and the runs that start with post, in any letter case
PostRuns ==
    UNION {Cases(w) : w \in {<<112, 97, 116, 99, 104>>, <<112, 108>>}
                             \cup {<<112, 111, 115, 116>> \o t : t \in Strs(TailLetters, MaxTail)}}

\* nothing, "0", "19"
DigitTails == {<<>>, <<48>>, <<49, 57>>}

\* '0', '1', 'a', '.'
BaseAlphabet == {48, 49, 97, 46}

\* the last alphanumeric run of v exists and is a run of digits
LastRunIsDigits(v) ==
    \E i \in 1..Len(v) :
        /\ IsDigit(v[i])
        /\ \A k \in (i + 1)..Len(v) : ~is_version_char(v[k])
        /\ \A j \in 1..i : (\A k \in j..i : is_version_char(v[k])) => IsDigit(v[j])

\* the leading letters of t
RECURSIVE LetterRun(_)
LetterRun(t) ==
    IF t # <<>> /\ (IsLower(t[1]) \/ IsUpper(t[1]))
    THEN <<t[1]>> \o LetterRun(Tail(t)) ELSE <<>>

\* a base version y against y with a prerelease or postrelease run s appended
InitPre ==
    /\ y \in {v \in Strs(BaseAlphabet, MaxBase) : LastRunIsDigits(v)}
    /\ s \in {w \o d : w \in PreRuns \cup PostRuns, d \in DigitTails}
    /\ x = y \o s
    /\ z = <<>>
    /\ f = {}
    /\ g = {}
    /\ fr = Frame(x, y, f, g)

SpecPre == InitPre /\ [][Next]_vars

(* C4: with no flags, a version y whose last alphanumeric run is a digit   *)
(* run compares strictly above y with a prerelease letter run (and maybe   *)
(* digits) appended, and strictly below y with a postrelease letter run    *)
(* (and maybe digits) appended.                                            *)
C4_PrePostOrdering ==
    fr.pc = "done" =>
        /\ LetterRun(s) \in PreRuns => fr.res = -1
        /\ LetterRun(s) \in PostRuns => fr.res = 1

\* a postrelease run with digits appended right after the digits of a
\* version of two components, compared to the end
C4_Witness ==
    /\ fr.pc = "done" /\ fr.res = 1
    /\ LetterRun(s) \in PostRuns /\ Len(s) > Len(LetterRun(s))
    /\ IsDigit(y[Len(y)]) /\ Len(fr.calls) >= 3

----------------------------------------------------------------------------
(* Saturation (SpecSat) *)

\* '0', '1', '2', '7', '8', '9'
SatDigits == {48, 49, 50, 55, 56, 57}

\* the decimal value of a digit run
RECURSIVE DecimalValue(_)
DecimalValue(d) ==
    IF d = <<>> THEN 0 ELSE 10 * DecimalValue(SubSeq(d, 1, Len(d) - 1)) + (d[Len(d)] - 48)

\* nothing, "p1"
SatSuffixes == {<<>>, <<112, 49>>}

\* the digit run a version of SpecSat starts with
DigitRun(v) == SubSeq(v, 1, Len(v) - Len(s))

\* two versions that differ only in their leading digit run, the second a
\* run of '9's
InitSat ==
    /\ z \in Strs(SatDigits, MaxDigits) \ {<<>>}
    /\ s \in SatSuffixes
    /\ x = z \o s
    /\ y \in {[i \in 1..n |-> 57] \o s : n \in 1..MaxDigits}
    /\ f = {}
    /\ g = {}
    /\ fr = Frame(x, y, f, g)

SpecSat == InitSat /\ [][Next]_vars

(* C7: parse_number consumes a non-empty digit run whole and returns the   *)
(* smaller of its decimal value and VERSION_COMPONENT_MAX; two runs whose  *)
(* values both exceed VERSION_COMPONENT_MAX give the same component, and   *)
(* versions that differ only in such runs compare equal.                   *)
C7_Saturation ==
    /\ \A d \in {DigitRun(x), DigitRun(y)} :
          /\ parse_number(d \o s).ret = MY_MIN(DecimalValue(d), VERSION_COMPONENT_MAX)
          /\ parse_number(d \o s).str = s
    /\ (DecimalValue(DigitRun(x)) > VERSION_COMPONENT_MAX
            /\ DecimalValue(DigitRun(y)) > VERSION_COMPONENT_MAX) =>
          /\ parse_number(x).ret = parse_number(y).ret
          /\ fr.pc = "done" => fr.res = 0

\* two different saturating runs, one of them clamped before its last
\* digit, in versions compared to the end
C7_Witness ==
    /\ fr.pc = "done" /\ fr.res = 0 /\ s # <<>>
    /\ DigitRun(x) # DigitRun(y)
    /\ DecimalValue(DigitRun(y)) > VERSION_COMPONENT_MAX
    /\ DecimalValue(SubSeq(DigitRun(x), 1, Len(DigitRun(x)) - 1)) > VERSION_COMPONENT_MAX

----------------------------------------------------------------------------
(* The errata rule (SpecAlpha) *)

\* 'e', 'R', 't'
ErLetters == {101, 82, 116}

\* a version that is one letter run, against the empty version
InitAlpha ==
    /\ x \in Strs(ErLetters, MaxAlpha)
    /\ y = <<>>
    /\ z = <<>>
    /\ s = <<>>
    /\ f \in FlagWords
    /\ g = {}
    /\ fr = Frame(x, y, f, g)

SpecAlpha == InitAlpha /\ [][Next]_vars

\* v begins with "er" in either letter case
BeginsEr(v) == Len(v) >= 2 /\ v[1] \in {101, 69} /\ v[2] \in {114, 82}

(* C8 as claimed: every letter run of length >= 6 that begins with "er"    *)
(* is classified postrelease by parse_alpha, whatever the flags.           *)
C8_ErrataAtLeastSix ==
    Len(x) >= 6 /\ BeginsEr(x) => parse_alpha(x, f).outflags = ALPHAFLAG_POSTRELEASE

(* C8 as amended: every letter run of length exactly 6 that begins with    *)
(* "er" is classified postrelease by parse_alpha, whatever the flags, and  *)
(* its unit is (0, 'e', -1); a longer run that begins with "er" is not     *)
(* classified by parse_alpha.                                              *)
C8_ErrataExactlySix ==
    /\ Len(x) = 6 /\ BeginsEr(x) =>
          /\ parse_alpha(x, f).outflags = ALPHAFLAG_POSTRELEASE
          /\ fr.s1 # <<>> => fr.s1[1].u = unit_t(0, 101, -1)
    /\ Len(x) > 6 /\ BeginsEr(x) => parse_alpha(x, f).outflags = 0

\* a six-letter run that begins with "eR" and is not "errata", extracted
\* without ANY_IS_PATCH and compared
C8_Witness ==
    /\ fr.pc = "done" /\ Len(x) = 6 /\ BeginsEr(x) /\ x[3] = 116
    /\ "ANY_IS_PATCH" \notin f /\ fr.s1[1].u.a = 0

====
